---- MODULE Spec2Model ----
(***************************************************************************)
(* autofill-utils: the command-line front end of the autofill component.   *)
(* One behaviour of this module is one process invocation: main parses the *)
(* options, opens the database, dispatches on the subcommand and the       *)
(* selected handler runs to the end or to its first error.                 *)
(*                                                                         *)
(* The file system, serde_json and the autofill library are the            *)
(* environment: the file system is the variable fs, and every library call *)
(* may return an error or any value of its return type.                    *)
(***************************************************************************)
EXTENDS Naturals, Sequences, FiniteSets

\* Strings the user can give as --guid / a record can carry: 1..MaxGuid.
MaxGuid == 2
\* Values of the payload field of a record: 1..MaxField.
MaxField == 2

GuidStrings == 1..MaxGuid
FieldValues == 1..MaxField

DefaultDatabasePath == "./autofill.db"
DatabasePaths == {DefaultDatabasePath, "custom.db"}
InputFiles == {"input.json"}
Kinds == {"address", "credit_card"}

\* sync_guid::Guid, built from a string and printed back with to_string.
GuidFrom(s) == [guid_str |-> s]
GuidToString(g) == g.guid_str
Guids == {GuidFrom(s) : s \in GuidStrings}

\* What a path of the file system holds: nothing, bytes that are no JSON,
\* or a JSON object of one of the two record kinds; guid = 0 is an object
\* without a "guid" key.
Absent == [json |-> "absent", kind |-> "none", guid |-> 0, field |-> 0]
Malformed == [json |-> "malformed", kind |-> "none", guid |-> 0, field |-> 0]
JsonObjects == [json : {"object"}, kind : Kinds, guid : 0..MaxGuid, field : FieldValues]
Contents == {Absent, Malformed} \cup JsonObjects

\* Address / CreditCard, as the library returns them.
Records(kind) == [kind : {kind}, guid : Guids, field : FieldValues]
NoRecord == [kind |-> "none"]

\* The subcommands and the payload of each variant of Command.
FileCommands == {"add-address", "update-address", "add-credit-card", "update-credit-card"}
GuidCommands == {"get-address", "delete-address", "get-credit-card", "delete-credit-card"}
BareCommands == {"get-all-addresses", "get-all-credit-cards"}
Command ==
    {[name |-> n, input_file |-> f] : n \in FileCommands, f \in InputFiles}
    \cup {[name |-> n, guid |-> g] : n \in GuidCommands, g \in GuidStrings}
    \cup {[name |-> n] : n \in BareCommands}
Opts ==
    {[database_path |-> p, no_logging |-> l, cmd |-> c] :
        p \in DatabasePaths, l \in BOOLEAN, c \in Command}

\* The library functions, by record kind and by operation.
AddressFns == {"addresses::add_address", "addresses::get_address",
               "addresses::get_all_addresses", "addresses::update_address",
               "addresses::delete_address"}
CreditCardFns == {"credit_cards::add_credit_card", "credit_cards::get_credit_card",
                  "credit_cards::get_all_credit_cards", "credit_cards::update_credit_card",
                  "credit_cards::delete_credit_card"}
LibraryFns == AddressFns \cup CreditCardFns
MutatingFns == {"addresses::add_address", "addresses::update_address",
                "addresses::delete_address", "credit_cards::add_credit_card",
                "credit_cards::update_credit_card", "credit_cards::delete_credit_card"}

NoHandle == [path |-> "none", open |-> FALSE]
NoError == [source |-> "none"]

VARIABLES
    opts,       \* the parsed command line
    fs,         \* the file system: what each input path holds
    pc,         \* position in main / in the running handler
    handlers,   \* the handlers entered so far, in order
    logging,    \* whether init_trace_logging has run
    db,         \* main's `db`
    record,     \* the handler's deserialized record
    guid,       \* run_update_*'s `guid`
    trace,      \* every fallible call made so far, in order, with its outcome
    output,     \* the lines printed so far
    dbLog,      \* the mutations the library has applied to the database
    result,     \* "running", or what main returned: "Ok" / "Err"
    error       \* the error main returned

vars == <<opts, fs, pc, handlers, logging, db, record, guid, trace, output, dbLog, result, error>>

Init ==
    /\ opts \in Opts
    /\ fs \in [InputFiles -> Contents]
    /\ pc = "main"
    /\ handlers = <<>>
    /\ logging = FALSE
    /\ db = NoHandle
    /\ record = NoRecord
    /\ guid = GuidFrom(0)
    /\ trace = <<>>
    /\ output = <<>>
    /\ dbLog = <<>>
    /\ result = "running"
    /\ error = NoError
----------------------------------------------------------------------------
\* The environment.

\* File::open(filename): fails when the path holds nothing.
FileOpenOk(filename) == fs[filename] # Absent

\* The record kind of each deserialization target, and whether the target
\* has a `guid` field.
TypeKind(T) == IF T \in {"NewAddressFields", "Address"} THEN "address" ELSE "credit_card"
TypeHasGuid(T) == T \in {"Address", "CreditCard"}

\* serde_json::from_reader::<T>: fails on bytes that are no JSON, on an
\* object of the other record kind and on an object that lacks a field of T.
FromReaderOk(T, content) ==
    /\ content.json = "object"
    /\ content.kind = TypeKind(T)
    /\ TypeHasGuid(T) => content.guid # 0

\* The value it yields: the object's fields that T declares.
FromReader(T, content) ==
    IF TypeHasGuid(T)
    THEN [kind |-> content.kind, guid |-> GuidFrom(content.guid), field |-> content.field]
    ELSE [kind |-> content.kind, field |-> content.field]

----------------------------------------------------------------------------
\* Steps shared by the handlers.

Last(s) == s[Len(s)]

\* The handler h has been entered by main's match and has not returned.
Running(h) == result = "running" /\ handlers # <<>> /\ Last(handlers) = h

\* `Ok(())` at the end of a handler, and `?` on an error e: main returns
\* what the handler returns.
ReturnOk == result' = "Ok" /\ error' = error /\ pc' = "done"
Propagate(e) == result' = "Err" /\ error' = e /\ pc' = "done"

\* One fallible call, as the trace records it.
\* The value a failing call returns.
Err(fn) == [source |-> fn]

Call(fn, arg, ok, ret) == [fn |-> fn, arg |-> arg, handle |-> db, ok |-> ok, ret |-> ret]

\* A library call on db.writer that fails: `?` returns its error.
LibraryErr(fn, arg) ==
    /\ trace' = Append(trace, Call(fn, arg, FALSE, Err(fn)))
    /\ Propagate(Err(fn))
    /\ UNCHANGED dbLog

\* A library call on db.writer that succeeds; a mutating one is applied to
\* the database.
LibraryOk(fn, arg, ret) ==
    /\ trace' = Append(trace, Call(fn, arg, TRUE, ret))
    /\ dbLog' = IF fn \in MutatingFns THEN Append(dbLog, [fn |-> fn, arg |-> arg]) ELSE dbLog

\* println!(line); let file = File::open(filename)?;
OpenInputFile(line) ==
    /\ pc = "entry"
    /\ output' = Append(output, line)
    /\ trace' = Append(trace, Call("File::open", opts.cmd.input_file,
                                   FileOpenOk(opts.cmd.input_file),
                                   IF FileOpenOk(opts.cmd.input_file)
                                   THEN [file |-> opts.cmd.input_file] ELSE Err("File::open")))
    /\ IF FileOpenOk(opts.cmd.input_file)
       THEN pc' = "opened" /\ UNCHANGED <<result, error>>
       ELSE Propagate(Err("File::open"))
    /\ UNCHANGED <<opts, fs, handlers, logging, db, record, guid, dbLog>>

\* ReadRecord without the `?`: the deserialization error is dropped.
ReadRecord_Unchecked(T) ==
    LET content == fs[opts.cmd.input_file] IN
    /\ pc = "opened"
    /\ trace' = Append(trace, Call("serde_json::from_reader", T, FromReaderOk(T, content),
                                   IF FromReaderOk(T, content)
                                   THEN FromReader(T, content) ELSE Err("serde_json::from_reader")))
    /\ record' = FromReader(T, content)
    /\ pc' = "parsed"
    /\ UNCHANGED <<result, error>>
    /\ UNCHANGED <<opts, fs, handlers, logging, db, guid, output, dbLog>>

\* let fields: T = serde_json::from_reader(BufReader::new(file))?;
ReadRecord(T) ==
    LET content == fs[opts.cmd.input_file] IN
    /\ pc = "opened"
    /\ trace' = Append(trace, Call("serde_json::from_reader", T, FromReaderOk(T, content),
                                   IF FromReaderOk(T, content)
                                   THEN FromReader(T, content) ELSE Err("serde_json::from_reader")))
    /\ IF FromReaderOk(T, content)
       THEN /\ record' = FromReader(T, content)
            /\ pc' = "parsed"
            /\ UNCHANGED <<result, error>>
       ELSE /\ Propagate(Err("serde_json::from_reader"))
            /\ UNCHANGED record
    /\ UNCHANGED <<opts, fs, handlers, logging, db, guid, output, dbLog>>

----------------------------------------------------------------------------
\* main, up to the match.

\* main that takes the default path instead of opts.database_path.
main_DefaultPath ==
    /\ pc = "main"
    /\ logging' = ~opts.no_logging
    /\ \E ok \in BOOLEAN :
        /\ trace' = Append(trace, Call("AutofillDb::new", DefaultDatabasePath, ok,
                                       IF ok THEN [path |-> DefaultDatabasePath, open |-> TRUE]
                                       ELSE Err("AutofillDb::new")))
        /\ IF ok
           THEN /\ db' = [path |-> DefaultDatabasePath, open |-> TRUE]
                /\ pc' = "match"
                /\ UNCHANGED <<result, error>>
           ELSE /\ Propagate(Err("AutofillDb::new"))
                /\ UNCHANGED db
    /\ UNCHANGED <<opts, fs, handlers, record, guid, output, dbLog>>

\* main without the `?` on AutofillDb::new: the match runs on a database
\* that did not open.
main_Unchecked ==
    /\ pc = "main"
    /\ logging' = ~opts.no_logging
    /\ \E ok \in BOOLEAN :
        /\ trace' = Append(trace, Call("AutofillDb::new", opts.database_path, ok,
                                       IF ok THEN [path |-> opts.database_path, open |-> TRUE]
                                       ELSE Err("AutofillDb::new")))
        /\ db' = [path |-> opts.database_path, open |-> ok]
        /\ pc' = "match"
        /\ UNCHANGED <<result, error>>
    /\ UNCHANGED <<opts, fs, handlers, record, guid, output, dbLog>>

main ==
    /\ pc = "main"
    /\ logging' = ~opts.no_logging
    /\ \E ok \in BOOLEAN :
        /\ trace' = Append(trace, Call("AutofillDb::new", opts.database_path, ok,
                                       IF ok THEN [path |-> opts.database_path, open |-> TRUE]
                                       ELSE Err("AutofillDb::new")))
        /\ IF ok
           THEN /\ db' = [path |-> opts.database_path, open |-> TRUE]
                /\ pc' = "match"
                /\ UNCHANGED <<result, error>>
           ELSE /\ Propagate(Err("AutofillDb::new"))
                /\ UNCHANGED db
    /\ UNCHANGED <<opts, fs, handlers, record, guid, output, dbLog>>

\* The match with the get-credit-card arm pasted from get-address.
Handler_Pasted(name) ==
    CASE name = "add-address" -> "run_add_address"
      [] name = "get-address" -> "run_get_address"
      [] name = "get-all-addresses" -> "run_get_all_addresses"
      [] name = "update-address" -> "run_update_address"
      [] name = "delete-address" -> "run_delete_address"
      [] name = "add-credit-card" -> "run_add_credit_card"
      [] name = "get-credit-card" -> "run_get_address"
      [] name = "get-all-credit-cards" -> "run_get_all_credit_cards"
      [] name = "update-credit-card" -> "run_update_credit_card"
      [] name = "delete-credit-card" -> "run_delete_credit_card"

\* The arms of `match opts.cmd`.
Handler(name) ==
    CASE name = "add-address" -> "run_add_address"
      [] name = "get-address" -> "run_get_address"
      [] name = "get-all-addresses" -> "run_get_all_addresses"
      [] name = "update-address" -> "run_update_address"
      [] name = "delete-address" -> "run_delete_address"
      [] name = "add-credit-card" -> "run_add_credit_card"
      [] name = "get-credit-card" -> "run_get_credit_card"
      [] name = "get-all-credit-cards" -> "run_get_all_credit_cards"
      [] name = "update-credit-card" -> "run_update_credit_card"
      [] name = "delete-credit-card" -> "run_delete_credit_card"

Dispatch ==
    /\ pc = "match"
    /\ result = "running"
    /\ handlers' = Append(handlers, Handler(opts.cmd.name))
    /\ pc' = "entry"
    /\ UNCHANGED <<opts, fs, logging, db, record, guid, trace, output, dbLog, result, error>>

----------------------------------------------------------------------------
\* The handlers.  Each is the sequence of its statements; a println! is
\* taken together with the fallible call that follows or precedes it.

run_add_address ==
    /\ Running("run_add_address")
    /\ \/ OpenInputFile(<<"Retrieving address data from", opts.cmd.input_file>>)
       \/ ReadRecord("NewAddressFields")
       \/ /\ pc = "parsed"
          /\ \/ /\ LibraryErr("addresses::add_address", record)
                /\ output' = Append(output, <<"Making add_address api call">>)
             \/ \E address \in Records("address") :
                    /\ LibraryOk("addresses::add_address", record, address)
                    /\ output' = output \o << <<"Making add_address api call">>,
                                               <<"Created address", address>> >>
                    /\ ReturnOk
          /\ UNCHANGED <<opts, fs, handlers, logging, db, record, guid>>

\* run_get_address that calls the library again when the first call fails.
run_get_address_Retry ==
    /\ Running("run_get_address")
    /\ pc = "entry"
    /\ \/ /\ trace' = trace \o << Call("addresses::get_address", GuidFrom(opts.cmd.guid),
                                       FALSE, Err("addresses::get_address")),
                                  Call("addresses::get_address", GuidFrom(opts.cmd.guid),
                                       FALSE, Err("addresses::get_address")) >>
          /\ Propagate(Err("addresses::get_address"))
          /\ UNCHANGED dbLog
          /\ output' = Append(output, <<"Getting address for guid", opts.cmd.guid>>)
       \/ \E address \in Records("address") :
              /\ LibraryOk("addresses::get_address", GuidFrom(opts.cmd.guid), address)
              /\ output' = output \o << <<"Getting address for guid", opts.cmd.guid>>,
                                         <<"Retrieved address", address>> >>
              /\ ReturnOk
    /\ UNCHANGED <<opts, fs, handlers, logging, db, record, guid>>

run_get_address ==
    /\ Running("run_get_address")
    /\ pc = "entry"
    /\ \/ /\ LibraryErr("addresses::get_address", GuidFrom(opts.cmd.guid))
          /\ output' = Append(output, <<"Getting address for guid", opts.cmd.guid>>)
       \/ \E address \in Records("address") :
              /\ LibraryOk("addresses::get_address", GuidFrom(opts.cmd.guid), address)
              /\ output' = output \o << <<"Getting address for guid", opts.cmd.guid>>,
                                         <<"Retrieved address", address>> >>
              /\ ReturnOk
    /\ UNCHANGED <<opts, fs, handlers, logging, db, record, guid>>

run_get_all_addresses ==
    /\ Running("run_get_all_addresses")
    /\ pc = "entry"
    /\ \/ /\ LibraryErr("addresses::get_all_addresses", "writer")
          /\ output' = Append(output, <<"Getting all addresses">>)
       \/ \E addresses \in SUBSET Records("address") :
              /\ LibraryOk("addresses::get_all_addresses", "writer", addresses)
              /\ output' = output \o << <<"Getting all addresses">>,
                                         <<"Retrieved addresses", addresses>> >>
              /\ ReturnOk
    /\ UNCHANGED <<opts, fs, handlers, logging, db, record, guid>>

\* run_update_address that reads the record back but prints the record it
\* was given.
run_update_address_PrintInput ==
    /\ Running("run_update_address")
    /\ \/ OpenInputFile(<<"Updating address data from", opts.cmd.input_file>>)
       \/ ReadRecord("Address")
       \/ /\ pc = "parsed"
          /\ guid' = record.guid
          /\ output' = Append(output, <<"Making update_address api call for guid",
                                         GuidToString(guid')>>)
          /\ \/ LibraryErr("addresses::update_address", record)
             \/ /\ LibraryOk("addresses::update_address", record, "unit")
                /\ pc' = "updated"
                /\ UNCHANGED <<result, error>>
          /\ UNCHANGED <<opts, fs, handlers, logging, db, record>>
       \/ /\ pc = "updated"
          /\ \/ /\ LibraryErr("addresses::get_address", guid)
                /\ UNCHANGED output
             \/ \E address \in Records("address") :
                    /\ LibraryOk("addresses::get_address", guid, address)
                    /\ output' = Append(output, <<"Updated address", record>>)
                    /\ ReturnOk
          /\ UNCHANGED <<opts, fs, handlers, logging, db, record, guid>>

run_update_address ==
    /\ Running("run_update_address")
    /\ \/ OpenInputFile(<<"Updating address data from", opts.cmd.input_file>>)
       \/ ReadRecord("Address")
       \/ /\ pc = "parsed"
          /\ guid' = record.guid
          /\ output' = Append(output, <<"Making update_address api call for guid",
                                         GuidToString(guid')>>)
          /\ \/ LibraryErr("addresses::update_address", record)
             \/ /\ LibraryOk("addresses::update_address", record, "unit")
                /\ pc' = "updated"
                /\ UNCHANGED <<result, error>>
          /\ UNCHANGED <<opts, fs, handlers, logging, db, record>>
       \/ /\ pc = "updated"
          /\ \/ /\ LibraryErr("addresses::get_address", guid)
                /\ UNCHANGED output
             \/ \E address \in Records("address") :
                    /\ LibraryOk("addresses::get_address", guid, address)
                    /\ output' = Append(output, <<"Updated address", address>>)
                    /\ ReturnOk
          /\ UNCHANGED <<opts, fs, handlers, logging, db, record, guid>>

\* run_delete_address that drops the library's error (`let _ = ...;`).
run_delete_address_Swallow ==
    /\ Running("run_delete_address")
    /\ pc = "entry"
    /\ \/ /\ trace' = Append(trace, Call("addresses::delete_address", GuidFrom(opts.cmd.guid),
                                         FALSE, Err("addresses::delete_address")))
          /\ UNCHANGED dbLog
          /\ output' = output \o << <<"Deleting address for guid", opts.cmd.guid>>,
                                     <<"Successfully deleted address">> >>
          /\ ReturnOk
       \/ \E deleted \in BOOLEAN :
              /\ LibraryOk("addresses::delete_address", GuidFrom(opts.cmd.guid), deleted)
              /\ output' = output \o << <<"Deleting address for guid", opts.cmd.guid>>,
                                         <<"Successfully deleted address">> >>
              /\ ReturnOk
    /\ UNCHANGED <<opts, fs, handlers, logging, db, record, guid>>

run_delete_address ==
    /\ Running("run_delete_address")
    /\ pc = "entry"
    /\ \/ /\ LibraryErr("addresses::delete_address", GuidFrom(opts.cmd.guid))
          /\ output' = Append(output, <<"Deleting address for guid", opts.cmd.guid>>)
       \/ \E deleted \in BOOLEAN :
              /\ LibraryOk("addresses::delete_address", GuidFrom(opts.cmd.guid), deleted)
              /\ output' = output \o << <<"Deleting address for guid", opts.cmd.guid>>,
                                         <<"Successfully deleted address">> >>
              /\ ReturnOk
    /\ UNCHANGED <<opts, fs, handlers, logging, db, record, guid>>

\* run_add_credit_card that passes a record with a field reset.
run_add_credit_card_ResetField ==
    /\ Running("run_add_credit_card")
    /\ \/ OpenInputFile(<<"Retrieving credit card data from", opts.cmd.input_file>>)
       \/ ReadRecord("NewCreditCardFields")
       \/ /\ pc = "parsed"
          /\ \/ /\ LibraryErr("credit_cards::add_credit_card", [record EXCEPT !.field = 1])
                /\ output' = Append(output, <<"Making add_credit_card api call">>)
             \/ \E credit_card \in Records("credit_card") :
                    /\ LibraryOk("credit_cards::add_credit_card", [record EXCEPT !.field = 1],
                                 credit_card)
                    /\ output' = output \o << <<"Making add_credit_card api call">>,
                                               <<"Created credit card", credit_card>> >>
                    /\ ReturnOk
          /\ UNCHANGED <<opts, fs, handlers, logging, db, record, guid>>

run_add_credit_card ==
    /\ Running("run_add_credit_card")
    /\ \/ OpenInputFile(<<"Retrieving credit card data from", opts.cmd.input_file>>)
       \/ ReadRecord("NewCreditCardFields")
       \/ /\ pc = "parsed"
          /\ \/ /\ LibraryErr("credit_cards::add_credit_card", record)
                /\ output' = Append(output, <<"Making add_credit_card api call">>)
             \/ \E credit_card \in Records("credit_card") :
                    /\ LibraryOk("credit_cards::add_credit_card", record, credit_card)
                    /\ output' = output \o << <<"Making add_credit_card api call">>,
                                               <<"Created credit card", credit_card>> >>
                    /\ ReturnOk
          /\ UNCHANGED <<opts, fs, handlers, logging, db, record, guid>>

run_get_credit_card ==
    /\ Running("run_get_credit_card")
    /\ pc = "entry"
    /\ \/ /\ LibraryErr("credit_cards::get_credit_card", GuidFrom(opts.cmd.guid))
          /\ output' = Append(output, <<"Getting credit card for guid", opts.cmd.guid>>)
       \/ \E credit_card \in Records("credit_card") :
              /\ LibraryOk("credit_cards::get_credit_card", GuidFrom(opts.cmd.guid), credit_card)
              /\ output' = output \o << <<"Getting credit card for guid", opts.cmd.guid>>,
                                         <<"Retrieved credit card", credit_card>> >>
              /\ ReturnOk
    /\ UNCHANGED <<opts, fs, handlers, logging, db, record, guid>>

run_get_all_credit_cards ==
    /\ Running("run_get_all_credit_cards")
    /\ pc = "entry"
    /\ \/ /\ LibraryErr("credit_cards::get_all_credit_cards", "writer")
          /\ output' = Append(output, <<"Getting all credit cards">>)
       \/ \E credit_cards \in SUBSET Records("credit_card") :
              /\ LibraryOk("credit_cards::get_all_credit_cards", "writer", credit_cards)
              /\ output' = output \o << <<"Getting all credit cards">>,
                                         <<"Retrieved credit cards", credit_cards>> >>
              /\ ReturnOk
    /\ UNCHANGED <<opts, fs, handlers, logging, db, record, guid>>

\* run_update_credit_card that prints the record it was given and does not
\* read it back.
run_update_credit_card_NoGet ==
    /\ Running("run_update_credit_card")
    /\ \/ OpenInputFile(<<"Updating credit card data from", opts.cmd.input_file>>)
       \/ ReadRecord("CreditCard")
       \/ /\ pc = "parsed"
          /\ guid' = record.guid
          /\ \/ /\ LibraryErr("credit_cards::update_credit_card", record)
                /\ output' = Append(output, <<"Making update_credit_card api call for guid",
                                               GuidToString(guid')>>)
             \/ /\ LibraryOk("credit_cards::update_credit_card", record, "unit")
                /\ output' = output \o << <<"Making update_credit_card api call for guid",
                                             GuidToString(guid')>>,
                                           <<"Updated credit card", record>> >>
                /\ ReturnOk
          /\ UNCHANGED <<opts, fs, handlers, logging, db, record>>

run_update_credit_card ==
    /\ Running("run_update_credit_card")
    /\ \/ OpenInputFile(<<"Updating credit card data from", opts.cmd.input_file>>)
       \/ ReadRecord("CreditCard")
       \/ /\ pc = "parsed"
          /\ guid' = record.guid
          /\ output' = Append(output, <<"Making update_credit_card api call for guid",
                                         GuidToString(guid')>>)
          /\ \/ LibraryErr("credit_cards::update_credit_card", record)
             \/ /\ LibraryOk("credit_cards::update_credit_card", record, "unit")
                /\ pc' = "updated"
                /\ UNCHANGED <<result, error>>
          /\ UNCHANGED <<opts, fs, handlers, logging, db, record>>
       \/ /\ pc = "updated"
          /\ \/ /\ LibraryErr("credit_cards::get_credit_card", guid)
                /\ UNCHANGED output
             \/ \E credit_card \in Records("credit_card") :
                    /\ LibraryOk("credit_cards::get_credit_card", guid, credit_card)
                    /\ output' = Append(output, <<"Updated credit card", credit_card>>)
                    /\ ReturnOk
          /\ UNCHANGED <<opts, fs, handlers, logging, db, record, guid>>

\* run_delete_credit_card that prints its success line before the call.
run_delete_credit_card_PrintFirst ==
    /\ Running("run_delete_credit_card")
    /\ pc = "entry"
    /\ output' = output \o << <<"Deleting credit card for guid", opts.cmd.guid>>,
                               <<"Successfully deleted credit card">> >>
    /\ \/ LibraryErr("credit_cards::delete_credit_card", GuidFrom(opts.cmd.guid))
       \/ \E deleted \in BOOLEAN :
              /\ LibraryOk("credit_cards::delete_credit_card", GuidFrom(opts.cmd.guid), deleted)
              /\ ReturnOk
    /\ UNCHANGED <<opts, fs, handlers, logging, db, record, guid>>

run_delete_credit_card ==
    /\ Running("run_delete_credit_card")
    /\ pc = "entry"
    /\ \/ /\ LibraryErr("credit_cards::delete_credit_card", GuidFrom(opts.cmd.guid))
          /\ output' = Append(output, <<"Deleting credit card for guid", opts.cmd.guid>>)
       \/ \E deleted \in BOOLEAN :
              /\ LibraryOk("credit_cards::delete_credit_card", GuidFrom(opts.cmd.guid), deleted)
              /\ output' = output \o << <<"Deleting credit card for guid", opts.cmd.guid>>,
                                         <<"Successfully deleted credit card">> >>
              /\ ReturnOk
    /\ UNCHANGED <<opts, fs, handlers, logging, db, record, guid>>

----------------------------------------------------------------------------
Next ==
    \/ main
    \/ Dispatch
    \/ run_add_address
    \/ run_get_address
    \/ run_get_all_addresses
    \/ run_update_address
    \/ run_delete_address
    \/ run_add_credit_card
    \/ run_get_credit_card
    \/ run_get_all_credit_cards
    \/ run_update_credit_card
    \/ run_delete_credit_card

Spec == Init /\ [][Next]_vars

TypeOK ==
    /\ opts \in Opts
    /\ pc \in {"main", "match", "entry", "opened", "parsed", "updated", "done"}
    /\ result \in {"running", "Ok", "Err"}
    /\ logging \in BOOLEAN
    /\ Len(handlers) <= 1

----------------------------------------------------------------------------
\* What the properties below speak about.

Done == pc = "done"
Failed == \E i \in DOMAIN trace : ~trace[i].ok
Fns(calls) == [i \in DOMAIN calls |-> calls[i].fn]
IsLibraryCall(t) == t.fn \in LibraryFns
LibraryCalls == SelectSeq(trace, IsLibraryCall)
IsOpenCall(t) == t.fn = "AutofillDb::new"
OpenCalls == SelectSeq(trace, IsOpenCall)

UpdateCommands == {"update-address", "update-credit-card"}
AddressCommands == {"add-address", "get-address", "get-all-addresses",
                    "update-address", "delete-address"}
ReadOnlyCommands == {"get-address", "get-all-addresses",
                     "get-credit-card", "get-all-credit-cards"}

\* The library function each subcommand is named after.
OwnFn(name) ==
    CASE name = "add-address" -> "addresses::add_address"
      [] name = "get-address" -> "addresses::get_address"
      [] name = "get-all-addresses" -> "addresses::get_all_addresses"
      [] name = "update-address" -> "addresses::update_address"
      [] name = "delete-address" -> "addresses::delete_address"
      [] name = "add-credit-card" -> "credit_cards::add_credit_card"
      [] name = "get-credit-card" -> "credit_cards::get_credit_card"
      [] name = "get-all-credit-cards" -> "credit_cards::get_all_credit_cards"
      [] name = "update-credit-card" -> "credit_cards::update_credit_card"
      [] name = "delete-credit-card" -> "credit_cards::delete_credit_card"

\* The get function of the record kind of a subcommand.
GetFn(name) ==
    IF name \in AddressCommands THEN "addresses::get_address"
    ELSE "credit_cards::get_credit_card"

\* The handler each subcommand is named after.
OwnHandler(name) ==
    CASE name = "add-address" -> "run_add_address"
      [] name = "get-address" -> "run_get_address"
      [] name = "get-all-addresses" -> "run_get_all_addresses"
      [] name = "update-address" -> "run_update_address"
      [] name = "delete-address" -> "run_delete_address"
      [] name = "add-credit-card" -> "run_add_credit_card"
      [] name = "get-credit-card" -> "run_get_credit_card"
      [] name = "get-all-credit-cards" -> "run_get_all_credit_cards"
      [] name = "update-credit-card" -> "run_update_credit_card"
      [] name = "delete-credit-card" -> "run_delete_credit_card"

\* The record type a file-taking subcommand expects in its input file.
InputType(name) ==
    CASE name = "add-address" -> "NewAddressFields"
      [] name = "update-address" -> "Address"
      [] name = "add-credit-card" -> "NewCreditCardFields"
      [] name = "update-credit-card" -> "CreditCard"

\* The input of a file-taking subcommand cannot be opened or does not
\* deserialize into the expected type.
BadInput ==
    /\ opts.cmd.name \in FileCommands
    /\ \/ ~FileOpenOk(opts.cmd.input_file)
       \/ ~FromReaderOk(InputType(opts.cmd.name), fs[opts.cmd.input_file])

\* The success and result lines.
DeletedTexts == {"Successfully deleted address", "Successfully deleted credit card"}
ResultTexts == {"Created address", "Retrieved address", "Retrieved addresses",
                "Updated address", "Created credit card", "Retrieved credit card",
                "Retrieved credit cards", "Updated credit card"} \cup DeletedTexts
ResultLines == {i \in DOMAIN output : output[i][1] \in ResultTexts}

\* The last line printed reports the library call c: it carries the value
\* the call returned, or, for a delete, it is the deletion line.
PrintsResultOf(c) ==
    /\ output # <<>>
    /\ Last(output)[1] \in ResultTexts
    /\ IF Last(output)[1] \in DeletedTexts
       THEN c.fn \in {"addresses::delete_address", "credit_cards::delete_credit_card"}
       ELSE Last(output)[2] = c.ret

----------------------------------------------------------------------------
\* C1 (as stated): a run of any of the ten subcommands in which every step
\* succeeds makes exactly one library call in total and prints its result.
C1_OneCallEveryCommand ==
    (Done /\ result = "Ok") =>
        /\ Len(LibraryCalls) = 1
        /\ PrintsResultOf(LibraryCalls[1])

\* C1 (amended): a run in which every step succeeds makes exactly one
\* library call, the one the subcommand is named after, and prints its
\* result, for the add, get, get-all and delete subcommands; for the two
\* update subcommands it makes exactly two, update_* then get_* of the same
\* kind, and prints the result of the get.
C1_OneCallExceptUpdate ==
    (Done /\ result = "Ok") =>
        IF opts.cmd.name \in UpdateCommands
        THEN /\ Fns(LibraryCalls) = <<OwnFn(opts.cmd.name), GetFn(opts.cmd.name)>>
             /\ PrintsResultOf(LibraryCalls[2])
        ELSE /\ Fns(LibraryCalls) = <<OwnFn(opts.cmd.name)>>
             /\ PrintsResultOf(LibraryCalls[1])

C1_Witness ==
    /\ Done /\ result = "Ok"
    /\ opts.cmd.name = "update-credit-card"
    /\ Len(LibraryCalls) = 2

\* C2: when the input file of a file-taking subcommand cannot be opened or
\* does not deserialize into the expected record type, no library function
\* has been called at any point of the run and the run ends in the error
\* outcome.
C2_BadInputNoLibraryCall ==
    BadInput =>
        /\ LibraryCalls = <<>>
        /\ result # "Ok"
        /\ Done => result = "Err"

C2_Witness ==
    /\ Done /\ BadInput /\ db.open
    /\ opts.cmd.name = "update-address"
    /\ Last(trace).fn = "serde_json::from_reader"
    /\ ~Last(trace).ok

\* The fallible steps a subcommand performs when every one succeeds.
Steps(name) ==
    <<"AutofillDb::new">>
    \o (IF name \in FileCommands THEN <<"File::open", "serde_json::from_reader">> ELSE <<>>)
    \o <<OwnFn(name)>>
    \o (IF name \in UpdateCommands THEN <<GetFn(name)>> ELSE <<>>)

C4_AfterFailure ==
    /\ \A i \in DOMAIN trace :
          ~trace[i].ok =>
              /\ i = Len(trace)
              /\ Done /\ result = "Err"
              /\ error = trace[i].ret
              /\ ResultLines = {}
    /\ \A i, j \in DOMAIN trace : i # j => trace[i].fn # trace[j].fn

\* C4: C4_AfterFailure holds throughout the run, and no step is taken from a
\* state in which a call has failed.
C4_FirstFailureTerminates == [](C4_AfterFailure) /\ [][~Failed]_vars

C4_Witness ==
    /\ Done /\ result = "Err"
    /\ opts.cmd.name = "get-address"
    /\ error = Err("addresses::get_address")

\* C5 (as stated): every subcommand runs only its own handler and the
\* handler calls only the one library function the subcommand is named
\* after.
C5_OnlyOwnFunction ==
    /\ \A i \in DOMAIN handlers : handlers[i] = OwnHandler(opts.cmd.name)
    /\ \A i \in DOMAIN LibraryCalls : LibraryCalls[i].fn = OwnFn(opts.cmd.name)

\* The library functions a subcommand may call: the one it is named after
\* and, for an update, the get of the same record kind.
AllowedFns(name) ==
    {OwnFn(name)} \cup (IF name \in UpdateCommands THEN {GetFn(name)} ELSE {})

\* C5 (amended): every subcommand runs only its own handler; the handler
\* calls only the library function the subcommand is named after, and the
\* two update handlers call in addition the get function of their own record
\* kind; an address subcommand never calls a credit_cards function and a
\* credit-card subcommand never calls an addresses function.
C5_OwnFunctionAndGetOnUpdate ==
    /\ \A i \in DOMAIN handlers : handlers[i] = OwnHandler(opts.cmd.name)
    /\ \A i \in DOMAIN LibraryCalls :
          /\ LibraryCalls[i].fn \in AllowedFns(opts.cmd.name)
          /\ (opts.cmd.name \in AddressCommands) <=> (LibraryCalls[i].fn \in AddressFns)

C5_Witness ==
    /\ Done
    /\ opts.cmd.name = "update-address"
    /\ handlers = <<"run_update_address">>
    /\ Fns(LibraryCalls) = <<"addresses::update_address", "addresses::get_address">>

\* The handle AutofillDb::new returns for the --database-path value.
OptsHandle == [path |-> opts.database_path, open |-> TRUE]

AddOrUpdateFns == {"addresses::add_address", "addresses::update_address",
                   "credit_cards::add_credit_card", "credit_cards::update_credit_card"}

\* C7: the record passed to add_* / update_* is the record deserialized
\* from the input file, with no field changed, and the identifier passed by
\* a get-* or delete-* subcommand is the --guid string of the command line.
C7_ArgumentsForwardedUnchanged ==
    \A i \in DOMAIN LibraryCalls :
        /\ LibraryCalls[i].fn \in AddOrUpdateFns =>
              /\ FromReaderOk(InputType(opts.cmd.name), fs[opts.cmd.input_file])
              /\ LibraryCalls[i].arg =
                    FromReader(InputType(opts.cmd.name), fs[opts.cmd.input_file])
        /\ opts.cmd.name \in GuidCommands =>
              GuidToString(LibraryCalls[i].arg) = opts.cmd.guid

C7_Witness ==
    /\ Done
    /\ opts.cmd.name = "add-credit-card"
    /\ LibraryCalls # <<>>
    /\ LibraryCalls[1].arg.field = MaxField

\* The record an update subcommand reads from its input file.
InputRecord == FromReader(InputType(opts.cmd.name), fs[opts.cmd.input_file])

\* C8: in the update subcommands, a successful update_* is followed by a
\* get_* call with the guid of the input record; the 'Updated' line carries
\* the record that get returned; and when the get fails the run ends in the
\* error outcome with the update still applied to the database.
C8_UpdateThenGet ==
    (Done /\ opts.cmd.name \in UpdateCommands
          /\ LibraryCalls # <<>> /\ LibraryCalls[1].ok) =>
        /\ LibraryCalls[1].fn = OwnFn(opts.cmd.name)
        /\ Len(LibraryCalls) = 2
        /\ LibraryCalls[2].fn = GetFn(opts.cmd.name)
        /\ LibraryCalls[2].arg = InputRecord.guid
        /\ dbLog = <<[fn |-> OwnFn(opts.cmd.name), arg |-> InputRecord]>>
        /\ IF LibraryCalls[2].ok
           THEN /\ result = "Ok"
                /\ Cardinality(ResultLines) = 1
                /\ Last(output)[1] \in {"Updated address", "Updated credit card"}
                /\ Last(output)[2] = LibraryCalls[2].ret
           ELSE /\ result = "Err"
                /\ error = LibraryCalls[2].ret
                /\ ResultLines = {}

C8_Witness ==
    /\ Done /\ result = "Ok"
    /\ opts.cmd.name = "update-address"
    /\ Len(LibraryCalls) = 2
    /\ Last(output)[2] # InputRecord

\* The place of each fallible step in a run.
Rank(fn) ==
    CASE fn = "AutofillDb::new" -> 1
      [] fn = "File::open" -> 2
      [] fn = "serde_json::from_reader" -> 3
      [] OTHER -> 4

\* C9: the database is opened first; when AutofillDb::new fails the run
\* ends in the error outcome with no handler entered, no input file opened,
\* no library function called and nothing printed; and the database open
\* precedes the input-file open, which precedes the deserialization, which
\* precedes the first library call.
C9_DatabaseOpenedFirst ==
    /\ (handlers # <<>> \/ output # <<>> \/ trace # <<>>) =>
          trace # <<>> /\ trace[1].fn = "AutofillDb::new"
    /\ (trace # <<>> /\ ~trace[1].ok) =>
          /\ handlers = <<>> /\ output = <<>>
          /\ Len(trace) = 1
          /\ Done /\ result = "Err"
    /\ \A i, j \in DOMAIN trace :
          i < j => /\ Rank(trace[i].fn) <= Rank(trace[j].fn)
                   /\ Rank(trace[i].fn) < 4 => Rank(trace[i].fn) < Rank(trace[j].fn)
    /\ (opts.cmd.name \in FileCommands /\ LibraryCalls # <<>>) =>
          /\ Len(trace) >= 4
          /\ Fns(SubSeq(trace, 1, 3)) = <<"AutofillDb::new", "File::open", "serde_json::from_reader">>
          /\ \A i \in 1..3 : trace[i].ok

C9_Witness ==
    /\ Done /\ result = "Ok"
    /\ opts.cmd.name = "add-credit-card"
    /\ Fns(trace) = <<"AutofillDb::new", "File::open", "serde_json::from_reader",
                      "credit_cards::add_credit_card">>

\* The library calls a result line reports.
Reported(text) ==
    CASE text \in {"Created address"} -> {"addresses::add_address"}
      [] text \in {"Retrieved address"} -> {"addresses::get_address"}
      [] text \in {"Retrieved addresses"} -> {"addresses::get_all_addresses"}
      [] text \in {"Updated address"} -> {"addresses::update_address", "addresses::get_address"}
      [] text \in {"Successfully deleted address"} -> {"addresses::delete_address"}
      [] text \in {"Created credit card"} -> {"credit_cards::add_credit_card"}
      [] text \in {"Retrieved credit card"} -> {"credit_cards::get_credit_card"}
      [] text \in {"Retrieved credit cards"} -> {"credit_cards::get_all_credit_cards"}
      [] text \in {"Updated credit card"} ->
            {"credit_cards::update_credit_card", "credit_cards::get_credit_card"}
      [] text \in {"Successfully deleted credit card"} -> {"credit_cards::delete_credit_card"}

\* C10: a result line is printed at most once per run and only when every
\* library call it reports has returned success; in a run where a library
\* call fails no result line is printed; and the read-only subcommands
\* never call an add, update or delete function.
C10_ResultLineOnlyAfterSuccess ==
    /\ Cardinality(ResultLines) <= 1
    /\ \A l \in ResultLines :
          \A fn \in Reported(output[l][1]) :
              \E i \in DOMAIN LibraryCalls : LibraryCalls[i].fn = fn /\ LibraryCalls[i].ok
    /\ (\E i \in DOMAIN LibraryCalls : ~LibraryCalls[i].ok) => ResultLines = {}
    /\ opts.cmd.name \in ReadOnlyCommands =>
          \A i \in DOMAIN LibraryCalls : LibraryCalls[i].fn \notin MutatingFns

C10_Witness ==
    /\ Done /\ result = "Err"
    /\ opts.cmd.name = "delete-credit-card"
    /\ LibraryCalls # <<>> /\ ~LibraryCalls[1].ok
    /\ Len(output) = 1

====
